---- MODULE Spec2Model ----
(***************************************************************************)
(* A model of the Ascon AEAD core (src/src/asconcore.rs).                  *)
(*                                                                         *)
(* A 64-bit word (u64) is the set of the positions of its 1 bits, a subset  *)
(* of 0..63 (bit 0 the least significant), so that XOR, AND, NOT, the      *)
(* rotations and the shifts keep the exact width of the Rust type.  A byte *)
(* is a number in 0..255 and a buffer is a sequence of bytes.              *)
(***************************************************************************)
EXTENDS Integers, Sequences, FiniteSets, TLC

\* ------------------------------------------------------------------------
\* Bounds of the model
\* ------------------------------------------------------------------------
MaxLen == 17
MaxCalls == 2

\* ------------------------------------------------------------------------
\* 64-bit words
\* ------------------------------------------------------------------------
Bits == 0..63

ZeroWord == {}

\* bit k of the byte b
BitOf(b, k) == (b \div (2 ^ k)) % 2 = 1

\* u64::from_be_bytes on a sequence of 8 bytes
from_be_bytes(bs) == {i \in Bits : BitOf(bs[8 - (i \div 8)], i % 8)}

\* the byte of w whose least significant bit is bit 8*k
ByteAt(w, k) ==
    (IF 8 * k \in w THEN 1 ELSE 0) + (IF 8 * k + 1 \in w THEN 2 ELSE 0)
  + (IF 8 * k + 2 \in w THEN 4 ELSE 0) + (IF 8 * k + 3 \in w THEN 8 ELSE 0)
  + (IF 8 * k + 4 \in w THEN 16 ELSE 0) + (IF 8 * k + 5 \in w THEN 32 ELSE 0)
  + (IF 8 * k + 6 \in w THEN 64 ELSE 0) + (IF 8 * k + 7 \in w THEN 128 ELSE 0)

\* the n low bytes of w, most significant first (WriteBytesExt::write_uint)
to_be_bytes(w, n) ==
    SubSeq(<<ByteAt(w, 7), ByteAt(w, 6), ByteAt(w, 5), ByteAt(w, 4),
             ByteAt(w, 3), ByteAt(w, 2), ByteAt(w, 1), ByteAt(w, 0)>>, 9 - n, 8)

\* the big-endian value of 1..8 bytes, zero-extended (ReadBytesExt::read_uint)
uint_from_be(bs) ==
    {i \in Bits : i < 8 * Len(bs) /\ BitOf(bs[Len(bs) - (i \div 8)], i % 8)}

XOR(a, b) == (a \ b) \cup (b \ a)
AND(a, b) == a \cap b
NOT(a) == Bits \ a
rotate_right(w, r) == {(i + 64 - r) % 64 : i \in w}
shl(w, s) == {i + s : i \in {j \in w : j + s <= 63}}
shr(w, s) == {i - s : i \in {j \in w : j >= s}}

\* a word given by its low byte
LowByte(c) == {k \in 0..7 : BitOf(c, k)}

\* ------------------------------------------------------------------------
\* Parameters
\* ------------------------------------------------------------------------
COUNT128 == 8
COUNT128A == 16
Rates == {COUNT128, COUNT128A}

IV(P) == IF P = COUNT128 THEN from_be_bytes(<<128, 64, 12, 6, 0, 0, 0, 0>>)
                         ELSE from_be_bytes(<<128, 128, 12, 8, 0, 0, 0, 0>>)

\* ------------------------------------------------------------------------
\* pad and clear
\* ------------------------------------------------------------------------
pad(n) == shl(LowByte(128), 56 - 8 * n)

\* 0x00ffffffffffffff
ClearMask == from_be_bytes(<<0, 255, 255, 255, 255, 255, 255, 255>>)

\* a clear that keeps the low n bytes instead of the low 8 - n
clear_low_n(word, n) == AND(word, shr(ClearMask, (8 - n) * 8 - 8))

clear(word, n) == AND(word, shr(ClearMask, n * 8 - 8))

\* ------------------------------------------------------------------------
\* The permutation
\* ------------------------------------------------------------------------
round(s, c) ==
    LET a0 == XOR(s.x0, s.x4)
        a1 == s.x1
        a2 == XOR(s.x2, XOR(s.x1, LowByte(c)))
        a3 == s.x3
        a4 == XOR(s.x4, s.x3)
        u0 == XOR(a0, AND(NOT(a1), a2))
        u1 == XOR(a1, AND(NOT(a2), a3))
        tx2 == XOR(a2, AND(NOT(a3), a4))
        u3 == XOR(a3, AND(NOT(a4), a0))
        tx4 == XOR(a4, AND(NOT(a0), a1))
        tx1 == XOR(u1, u0)
        tx3 == XOR(u3, tx2)
        tx0 == XOR(u0, tx4)
        l0 == XOR(tx0, rotate_right(tx0, 9))
        l1 == XOR(tx1, rotate_right(tx1, 22))
        l2 == XOR(tx2, rotate_right(tx2, 5))
        l3 == XOR(tx3, rotate_right(tx3, 7))
        l4 == XOR(tx4, rotate_right(tx4, 34))
    IN  [x0 |-> XOR(tx0, rotate_right(l0, 19)),
         x1 |-> XOR(tx1, rotate_right(l1, 39)),
         x2 |-> NOT(XOR(tx2, rotate_right(l2, 1))),
         x3 |-> XOR(tx3, rotate_right(l3, 10)),
         x4 |-> XOR(tx4, rotate_right(l4, 7))]

\* the rounds with the constants cs, in order; each round is evaluated (the
\* comparison) before the next one starts
RECURSIVE rounds(_, _)
rounds(s, cs) ==
    IF cs = <<>> THEN s
    ELSE LET t == round(s, Head(cs))
         IN  IF t = t THEN rounds(t, Tail(cs)) ELSE t

permute_12(s) == rounds(s, <<240, 225, 210, 195, 180, 165, 150, 135, 120, 105, 90, 75>>)
permute_8(s) == rounds(s, <<180, 165, 150, 135, 120, 105, 90, 75>>)
permute_6(s) == rounds(s, <<150, 135, 120, 105, 90, 75>>)

permute(P, s) == IF P = COUNT128 THEN permute_6(s) ELSE permute_8(s)

\* ------------------------------------------------------------------------
\* Core::new
\* ------------------------------------------------------------------------
new(P, key, nonce) ==
    LET key_1 == from_be_bytes(SubSeq(key, 1, 8))
        key_2 == from_be_bytes(SubSeq(key, 9, 16))
        s0 == [x0 |-> IV(P), x1 |-> key_1, x2 |-> key_2,
               x3 |-> from_be_bytes(SubSeq(nonce, 1, 8)),
               x4 |-> from_be_bytes(SubSeq(nonce, 9, 16))]
        s1 == permute_12(s0)
    IN  [state |-> [s1 EXCEPT !.x3 = XOR(@, key_1), !.x4 = XOR(@, key_2)],
         key |-> <<key_1, key_2>>]

\* ------------------------------------------------------------------------
\* The cursor over a byte buffer, with the registers of one process_* call:
\* st the permutation state, buf/pos the Cursor, len the remaining length,
\* rd the value of the last read, panic whether an unwrap, an assertion or an
\* checked arithmetic operation has failed, calls the helper calls and shifts performed,
\* cl the calls of clear with the word before and after.
\* ------------------------------------------------------------------------
cursor(st, bytes) ==
    [st |-> st, buf |-> bytes, pos |-> 0, len |-> Len(bytes), rd |-> ZeroWord,
     panic |-> FALSE, calls |-> {}, cl |-> {}]

\* rdr.read_u64::<BigEndian>().unwrap()
read_u64(m) ==
    IF m.panic THEN m
    ELSE IF m.pos + 8 > Len(m.buf) THEN [m EXCEPT !.panic = TRUE]
    ELSE [m EXCEPT !.rd = from_be_bytes(SubSeq(m.buf, m.pos + 1, m.pos + 8)),
                   !.pos = @ + 8]

\* rdr.read_uint::<BigEndian>(n).unwrap()
read_uint(m, n) ==
    IF m.panic THEN m
    ELSE IF n < 1 \/ n > 8 \/ m.pos + n > Len(m.buf) THEN [m EXCEPT !.panic = TRUE]
    ELSE [m EXCEPT !.rd = uint_from_be(SubSeq(m.buf, m.pos + 1, m.pos + n)),
                   !.pos = @ + n]

\* rdr.seek(SeekFrom::Current(d)).unwrap()
seek_current(m, d) ==
    IF m.panic THEN m
    ELSE IF m.pos + d < 0 THEN [m EXCEPT !.panic = TRUE]
    ELSE [m EXCEPT !.pos = @ + d]

\* the buffer with the n low bytes of w written big-endian after position pos
put_bytes(bytes, pos, w, n) ==
    SubSeq(bytes, 1, pos) \o to_be_bytes(w, n) \o SubSeq(bytes, pos + n + 1, Len(bytes))

\* rdr.write_u64::<BigEndian>(w).unwrap()
write_u64(m, w) ==
    IF m.panic THEN m
    ELSE IF m.pos + 8 > Len(m.buf) THEN [m EXCEPT !.panic = TRUE]
    ELSE [m EXCEPT !.buf = put_bytes(@, m.pos, w, 8), !.pos = @ + 8]

\* rdr.write_uint::<BigEndian>(w, n).unwrap(); w must fit in n bytes
write_uint(m, w, n) ==
    IF m.panic THEN m
    ELSE IF n < 1 \/ n > 8 \/ (\E i \in w : i >= 8 * n)
              \/ m.pos + n > Len(m.buf)
         THEN [m EXCEPT !.panic = TRUE]
    ELSE [m EXCEPT !.buf = put_bytes(@, m.pos, w, n), !.pos = @ + n]

\* self.state.<w> ^= <value just read>
xor_rd(m, w) == IF m.panic THEN m ELSE [m EXCEPT !.st[w] = XOR(@, m.rd)]

\* self.state.<w> = <value just read>
set_rd(m, w) == IF m.panic THEN m ELSE [m EXCEPT !.st[w] = m.rd]

\* <value just read> << s, the shift checked as Rust checks it
shl_rd(m, s) ==
    IF m.panic THEN m
    ELSE IF s < 0 \/ s > 63 THEN [m EXCEPT !.panic = TRUE, !.calls = @ \cup {<<"shl", s>>}]
    ELSE [m EXCEPT !.rd = shl(@, s), !.calls = @ \cup {<<"shl", s>>}]

\* *px ^= pad(len)
xor_pad(m, px) ==
    IF m.panic THEN m
    ELSE IF m.len > 7
         THEN [m EXCEPT !.panic = TRUE,
                        !.calls = @ \cup {<<"pad", m.len>>, <<"shl", 56 - 8 * m.len>>}]
    ELSE [m EXCEPT !.st[px] = XOR(@, pad(m.len)),
                   !.calls = @ \cup {<<"pad", m.len>>, <<"shl", 56 - 8 * m.len>>}]

\* rdr.write_uint::<BigEndian>(*px >> ((8 - len) * 8), len).unwrap()
write_px(m, px) ==
    IF m.panic THEN m
    ELSE LET s == (8 - m.len) * 8
         IN  IF s < 0 \/ s > 63
             THEN [m EXCEPT !.panic = TRUE, !.calls = @ \cup {<<"shr", s>>}]
             ELSE write_uint([m EXCEPT !.calls = @ \cup {<<"shr", s>>}],
                             shr(m.st[px], s), m.len)

\* a decrypt tail that XORs the ciphertext into *px without clearing it
clear_px_skipped(m, px) ==
    IF m.panic THEN m
    ELSE [m EXCEPT !.st[px] = XOR(@, m.rd),
                   !.calls = @ \cup {<<"clear", m.len>>, <<"shr", m.len * 8 - 8>>},
                   !.cl = @ \cup {[n |-> m.len, before |-> m.st[px],
                                   after |-> m.st[px]]}]

\* *px = clear(*px, len) ^ cx, with cx the value just read and shifted
clear_px(m, px) ==
    IF m.panic THEN m
    ELSE IF m.len < 1 \/ m.len > 8
         THEN [m EXCEPT !.panic = TRUE,
                        !.calls = @ \cup {<<"clear", m.len>>, <<"shr", m.len * 8 - 8>>}]
    ELSE [m EXCEPT !.st[px] = XOR(clear(@, m.len), m.rd),
                   !.calls = @ \cup {<<"clear", m.len>>, <<"shr", m.len * 8 - 8>>},
                   !.cl = @ \cup {[n |-> m.len, before |-> m.st[px],
                                   after |-> clear(m.st[px], m.len)]}]

\* len -= n, the subtraction checked as Rust checks it
sub_len(m, n) ==
    IF m.panic THEN m
    ELSE IF m.len < n THEN [m EXCEPT !.panic = TRUE]
    ELSE [m EXCEPT !.len = @ - n]

\* self.state.permute()
do_permute(P, m) == IF m.panic THEN m ELSE [m EXCEPT !.st = permute(P, @)]

\* ------------------------------------------------------------------------
\* Core::process_associated_data
\* ------------------------------------------------------------------------
RECURSIVE ad_loop(_, _)
ad_loop(P, m) ==
    IF m.panic \/ m.len < P THEN m
    ELSE LET a == xor_rd(read_u64(m), "x0")
             b == IF P = COUNT128A THEN xor_rd(read_u64(a), "x1") ELSE a
         IN  ad_loop(P, sub_len(do_permute(P, b), P))

\* a partial block that always goes to x0, whatever the rate and the length
ad_tail_x0_only(P, m) ==
    LET b == xor_pad(m, "x0")
        c == IF b.len > 0
             THEN xor_rd(shl_rd(read_uint(b, b.len), (8 - b.len) * 8), "x0")
             ELSE b
    IN  do_permute(P, c)

ad_tail(P, m) ==
    LET sel == P = COUNT128A /\ m.len >= 8
        a == IF sel THEN sub_len(xor_rd(read_u64(m), "x0"), 8) ELSE m
        px == IF sel THEN "x1" ELSE "x0"
        b == xor_pad(a, px)
        c == IF b.len > 0
             THEN xor_rd(shl_rd(read_uint(b, b.len), (8 - b.len) * 8), px)
             ELSE b
    IN  do_permute(P, c)

\* an absorption whose domain separation is skipped for empty associated data
process_associated_data_nonempty(P, st, associated_data) ==
    LET m == cursor(st, associated_data)
    IN  IF Len(associated_data) > 0
        THEN [ad_tail(P, ad_loop(P, m)) EXCEPT !.st.x4 = XOR(@, LowByte(1))]
        ELSE m

process_associated_data(P, st, associated_data) ==
    LET m == IF Len(associated_data) > 0
             THEN ad_tail(P, ad_loop(P, cursor(st, associated_data)))
             ELSE cursor(st, associated_data)
    IN  [m EXCEPT !.st.x4 = XOR(@, LowByte(1))]

\* ------------------------------------------------------------------------
\* Core::process_encrypt_inplace
\* ------------------------------------------------------------------------
\* self.state.<w> ^= read_u64; seek(-8); write_u64(self.state.<w>)
enc_word(m, w) ==
    LET a == seek_current(xor_rd(read_u64(m), w), -8)
    IN  write_u64(a, a.st[w])

RECURSIVE enc_loop(_, _)
enc_loop(P, m) ==
    IF m.panic \/ m.len < P THEN m
    ELSE LET a == enc_word(m, "x0")
             b == IF P = COUNT128A THEN enc_word(a, "x1") ELSE a
         IN  enc_loop(P, sub_len(do_permute(P, b), P))

enc_tail(P, m) ==
    LET sel == P = COUNT128A /\ m.len >= 8
        a == IF sel THEN sub_len(enc_word(m, "x0"), 8) ELSE m
        px == IF sel THEN "x1" ELSE "x0"
        b == xor_pad(a, px)
    IN  IF b.len > 0
        THEN write_px(seek_current(xor_rd(shl_rd(read_uint(b, b.len), (8 - b.len) * 8), px),
                                   -b.len), px)
        ELSE b

process_encrypt_inplace(P, st, message) == enc_tail(P, enc_loop(P, cursor(st, message)))

\* ------------------------------------------------------------------------
\* Core::process_decrypt_inplace
\* ------------------------------------------------------------------------
\* a full-word decryption that leaves the state word as it was
dec_word_state_kept(m, w) ==
    LET a == seek_current(read_u64(m), -8)
    IN  write_u64(a, XOR(a.st[w], a.rd))

\* cx = read_u64; seek(-8); write_u64(self.state.<w> ^ cx); self.state.<w> = cx
dec_word(m, w) ==
    LET a == seek_current(read_u64(m), -8)
    IN  set_rd(write_u64(a, XOR(a.st[w], a.rd)), w)

RECURSIVE dec_loop(_, _)
dec_loop(P, m) ==
    IF m.panic \/ m.len < P THEN m
    ELSE LET a == dec_word(m, "x0")
             b == IF P = COUNT128A THEN dec_word(a, "x1") ELSE a
         IN  dec_loop(P, sub_len(do_permute(P, b), P))

dec_tail(P, m) ==
    LET sel == P = COUNT128A /\ m.len >= 8
        a == IF sel THEN sub_len(dec_word(m, "x0"), 8) ELSE m
        px == IF sel THEN "x1" ELSE "x0"
        b == xor_pad(a, px)
    IN  IF b.len > 0
        THEN clear_px(write_px(seek_current(
                 xor_rd(shl_rd(read_uint(b, b.len), (8 - b.len) * 8), px), -b.len), px), px)
        ELSE b

process_decrypt_inplace(P, st, ciphertext) ==
    dec_tail(P, dec_loop(P, cursor(st, ciphertext)))

\* ------------------------------------------------------------------------
\* Core::process_final, the tag, the two public operations and Drop
\* ------------------------------------------------------------------------
process_final(P, core) ==
    LET s0 == core.state
        s1 == IF P = COUNT128
              THEN [s0 EXCEPT !.x1 = XOR(@, core.key[1]), !.x2 = XOR(@, core.key[2])]
              ELSE IF P = COUNT128A
              THEN [s0 EXCEPT !.x2 = XOR(@, core.key[1]), !.x3 = XOR(@, core.key[2])]
              ELSE s0
        s2 == permute_12(s1)
    IN  [core EXCEPT !.state = [s2 EXCEPT !.x3 = XOR(@, core.key[1]),
                                          !.x4 = XOR(@, core.key[2])]]

\* write_u64(x3) then write_u64(x4) into the 16-byte tag
tag_of(st) == to_be_bytes(st.x3, 8) \o to_be_bytes(st.x4, 8)

\* a comparison of the first 8 bytes only
ct_eq_first_half(a, b) ==
    IF Len(a) = Len(b) /\ (\A i \in 1..8 : a[i] = b[i]) THEN 1 ELSE 0

\* subtle::ConstantTimeEq on two tags: 1 when all bytes are equal, else 0
ct_eq(a, b) == IF Len(a) = Len(b) /\ (\A i \in 1..Len(a) : a[i] = b[i]) THEN 1 ELSE 0

\* The registers of one call of a public operation: the core (self), the
\* caller's buffer, whether the call has panicked, the helper calls and shifts
\* it performed, its calls of clear and the permutation state it had after
\* process_associated_data.
call(core, bytes) ==
    [core |-> core, buf |-> bytes, panic |-> FALSE, calls |-> {}, cl |-> {},
     afterAD |-> core.state]

\* the call c after a process_* step that ended in the cursor registers m
after_ad(c, m) ==
    [c EXCEPT !.core.state = m.st, !.panic = @ \/ m.panic,
              !.calls = @ \cup m.calls, !.afterAD = m.st]

after_msg(c, m) ==
    [c EXCEPT !.core.state = m.st, !.buf = m.buf, !.panic = @ \/ m.panic,
              !.calls = @ \cup m.calls, !.cl = @ \cup m.cl]

\* self.process_associated_data(associated_data)
do_associated_data(P, c, associated_data) ==
    after_ad(c, process_associated_data(P, c.core.state, associated_data))

\* self.process_encrypt_inplace(message)
do_encrypt_inplace(P, c) == after_msg(c, process_encrypt_inplace(P, c.core.state, c.buf))

\* self.process_decrypt_inplace(ciphertext)
do_decrypt_inplace(P, c) == after_msg(c, process_decrypt_inplace(P, c.core.state, c.buf))

\* self.process_final()
do_final(P, c) == [c EXCEPT !.core = process_final(P, @)]

\* the tag written from x3 and x4, returned
return_tag(c) ==
    [core |-> c.core, buf |-> c.buf, tag |-> tag_of(c.core.state), result |-> "Tag",
     panic |-> c.panic, calls |-> c.calls, cl |-> c.cl, afterAD |-> c.afterAD]

\* a verdict that zeroes the buffer when the tags differ
return_verdict_scrubbed(c, expected_tag) ==
    [core |-> c.core,
     buf |-> IF ct_eq(tag_of(c.core.state), expected_tag) = 1 THEN c.buf
             ELSE [i \in 1..Len(c.buf) |-> 0],
     tag |-> tag_of(c.core.state),
     result |-> IF ct_eq(tag_of(c.core.state), expected_tag) = 1 THEN "Ok" ELSE "Err",
     panic |-> c.panic, calls |-> c.calls, cl |-> c.cl, afterAD |-> c.afterAD]

\* the tag written from x3 and x4, compared with expected_tag
return_verdict(c, expected_tag) ==
    [core |-> c.core, buf |-> c.buf, tag |-> tag_of(c.core.state),
     result |-> IF ct_eq(tag_of(c.core.state), expected_tag) = 1 THEN "Ok" ELSE "Err",
     panic |-> c.panic, calls |-> c.calls, cl |-> c.cl, afterAD |-> c.afterAD]

encrypt_inplace(P, core, message, associated_data) ==
    return_tag(do_final(P, do_encrypt_inplace(P,
        do_associated_data(P, call(core, message), associated_data))))

\* decrypt_inplace up to the comparison of the tags
decrypt_steps(P, core, ciphertext, associated_data) ==
    do_final(P, do_decrypt_inplace(P,
        do_associated_data(P, call(core, ciphertext), associated_data)))

decrypt_inplace(P, core, ciphertext, associated_data, expected_tag) ==
    return_verdict(decrypt_steps(P, core, ciphertext, associated_data), expected_tag)

\* a drop that zeroes the first key word only
drop_first_word(zeroize, core) ==
    IF zeroize THEN [core EXCEPT !.key[1] = ZeroWord] ELSE core

\* Drop for Core, compiled only with the feature zeroize: self.key.zeroize()
drop(zeroize, core) ==
    IF zeroize THEN [core EXCEPT !.key = <<ZeroWord, ZeroWord>>] ELSE core

\* ------------------------------------------------------------------------
\* The inputs
\* ------------------------------------------------------------------------
\* n bytes: a, a + d, a + 2d, ... (mod 256)
Bytes(n, a, d) == [i \in 1..n |-> (a + d * (i - 1)) % 256]

Keys == {Bytes(16, 0, 1)}
Nonces == {Bytes(16, 16, 3)}
ADs == {Bytes(n, 5, 11) : n \in 0..MaxLen}
Messages == {Bytes(n, 250, 7) : n \in 0..MaxLen}

\* the associated data and the message of one run: both empty, or of
\* lengths that add up to MaxLen (each length occurs, with the other
\* input empty, shorter and longer)
Inputs == {io \in ADs \X Messages : Len(io[1]) + Len(io[2]) \in {0, MaxLen}}

\* the tag t with bit j (0..127) inverted
FlipBit(t, j) ==
    [t EXCEPT ![1 + (j \div 8)] = IF BitOf(@, j % 8) THEN @ - 2 ^ (j % 8)
                                                     ELSE @ + 2 ^ (j % 8)]

\* the bit at which a caller's expected tag may differ from the tag it holds;
\* it varies with the lengths of the inputs, over both halves of the tag
FlipAt(a, m) == (37 * Len(a) + 5 * Len(m)) % 128

\* the expected tags a caller may pass to decrypt_inplace: the tag it holds,
\* or that tag with one bit inverted
TagChoices(t, a, m) == {t, FlipBit(t, FlipAt(a, m))}

\* ------------------------------------------------------------------------
\* The state
\* ------------------------------------------------------------------------
VARIABLES
    P,          \* the rate P::COUNT of the variant
    zeroize,    \* whether the feature zeroize is compiled in
    key,        \* the caller's key
    nonce,      \* the caller's nonce
    ad,         \* the caller's associated data
    pt,         \* the plaintext the caller started with
    buf,        \* the caller's buffer, processed in place
    tag,        \* the tag the caller holds (the last one encrypt_inplace returned)
    core,       \* the Core: its permutation state and its retained key words
    phase,      \* "none", "constructed", "finalized" (an operation returned), "dropped"
    ops,        \* the number of operations the present core has performed
    ncalls,     \* the number of operations performed in all
    last,       \* the last operation: its inputs, its result and what it went through
    log,        \* the operations performed, in order; first: by a core fresh from new
    hw,         \* a word handed to a helper (pad, clear) on its own
    hn,         \* the byte count handed to the helper
    hout        \* what the helper returned

vars == <<P, zeroize, key, nonce, ad, pt, buf, tag, core, phase, ops, ncalls, last,
          log, hw, hn, hout>>

helper == <<hw, hn, hout>>

params == <<P, zeroize, key, nonce, ad, pt>>

ZeroState == [x0 |-> ZeroWord, x1 |-> ZeroWord, x2 |-> ZeroWord, x3 |-> ZeroWord,
              x4 |-> ZeroWord]

NoCore == [state |-> ZeroState, key |-> <<ZeroWord, ZeroWord>>]

NoCall == [op |-> "none", pre |-> NoCore, inbuf |-> <<>>, outbuf |-> <<>>,
           expected |-> <<>>, result |-> "none", computed |-> <<>>, panic |-> FALSE,
           calls |-> {}, cl |-> {}, afterAD |-> ZeroState]

NoHelper == [op |-> "none", val |-> ZeroWord]

alive == phase \in {"constructed", "finalized"}

Init ==
    /\ P \in Rates
    /\ zeroize \in BOOLEAN
    /\ key \in Keys
    /\ nonce \in Nonces
    /\ \E io \in Inputs : ad = io[1] /\ pt = io[2] /\ buf = io[2]
    /\ tag = Bytes(16, 0, 0)
    /\ core = NoCore
    /\ phase = "none"
    /\ ops = 0
    /\ ncalls = 0
    /\ last = NoCall
    /\ log = <<>>
    /\ hw = ZeroWord
    /\ hn = 0
    /\ hout = NoHelper

\* let mut core = Core::<P>::new(&key, &nonce)
New ==
    /\ ~alive
    /\ core' = new(P, key, nonce)
    /\ phase' = "constructed"
    /\ ops' = 0
    /\ UNCHANGED <<params, buf, tag, ncalls, last, log, helper>>

\* tag = core.encrypt_inplace(&mut buf, &ad); nothing but the borrow &mut self
\* is asked of the core, so the call is open to a core that has finalized
EncryptInplace ==
    /\ alive
    /\ ncalls < MaxCalls
    /\ \E r \in {encrypt_inplace(P, core, buf, ad)} :
           /\ core' = r.core
           /\ buf' = r.buf
           /\ tag' = r.tag
           /\ last' = [op |-> "enc", pre |-> core, inbuf |-> buf, outbuf |-> r.buf,
                       expected |-> <<>>, result |-> r.result, computed |-> r.tag,
                       panic |-> r.panic, calls |-> r.calls, cl |-> r.cl,
                       afterAD |-> r.afterAD]
           /\ log' = Append(log, [op |-> "enc", first |-> ops = 0, inbuf |-> buf,
                                  outbuf |-> r.buf, tag |-> r.tag, result |-> r.result])
    /\ phase' = "finalized"
    /\ ops' = ops + 1
    /\ ncalls' = ncalls + 1
    /\ UNCHANGED <<params, helper>>

\* result = core.decrypt_inplace(&mut buf, &ad, &expected_tag): the steps up to
\* the comparison are the same for every expected_tag and are taken once
DecryptInplace ==
    /\ alive
    /\ ncalls < MaxCalls
    /\ \E c \in {decrypt_steps(P, core, buf, ad)}, expected_tag \in TagChoices(tag, ad, pt) :
         \E r \in {return_verdict(c, expected_tag)} :
             /\ core' = r.core
             /\ buf' = r.buf
             /\ last' = [op |-> "dec", pre |-> core, inbuf |-> buf, outbuf |-> r.buf,
                         expected |-> expected_tag, result |-> r.result,
                         computed |-> r.tag, panic |-> r.panic, calls |-> r.calls,
                         cl |-> r.cl, afterAD |-> r.afterAD]
             /\ log' = Append(log, [op |-> "dec", first |-> ops = 0, inbuf |-> buf,
                                    outbuf |-> r.buf, tag |-> expected_tag,
                                    result |-> r.result])
    /\ phase' = "finalized"
    /\ ops' = ops + 1
    /\ ncalls' = ncalls + 1
    /\ UNCHANGED <<params, tag, helper>>

\* the core goes out of scope
Drop ==
    /\ alive
    /\ core' = drop(zeroize, core)
    /\ phase' = "dropped"
    /\ UNCHANGED <<params, buf, tag, ops, ncalls, last, log, helper>>

Next == New \/ EncryptInplace \/ DecryptInplace \/ Drop

Spec == Init /\ [][Next]_vars

\* ------------------------------------------------------------------------
\* The helpers pad and clear on their own: a word and a byte count are drawn,
\* and the helper is applied to them; no core is constructed.
\* ------------------------------------------------------------------------
HelperWords ==
    {from_be_bytes(Bytes(8, a, d)) : a \in {0, 1, 128, 255}, d \in {0, 1, 34, 255}}

InitHelpers ==
    /\ P = COUNT128
    /\ zeroize = FALSE
    /\ key \in Keys
    /\ nonce \in Nonces
    /\ ad = <<>> /\ pt = <<>> /\ buf = <<>>
    /\ tag = Bytes(16, 0, 0)
    /\ core = NoCore
    /\ phase = "none"
    /\ ops = 0
    /\ ncalls = 0
    /\ last = NoCall
    /\ log = <<>>
    /\ hw \in HelperWords
    /\ hn \in 0..7
    /\ hout = NoHelper

\* clear(hw, hn), for the byte counts 1..7 the function is written for
ApplyClear ==
    /\ hout.op = "none"
    /\ hn \in 1..7
    /\ hout' = [op |-> "clear", val |-> clear(hw, hn)]
    /\ UNCHANGED <<params, buf, tag, core, phase, ops, ncalls, last, log, hw, hn>>

\* pad(hn)
ApplyPad ==
    /\ hout.op = "none"
    /\ hout' = [op |-> "pad", val |-> pad(hn)]
    /\ UNCHANGED <<params, buf, tag, core, phase, ops, ncalls, last, log, hw, hn>>

NextHelpers == ApplyClear \/ ApplyPad

SpecHelpers == InitHelpers /\ [][NextHelpers]_vars

\* ------------------------------------------------------------------------
\* Properties
\* ------------------------------------------------------------------------
\* entry i of the log is an encryption by a fresh core and entry i + 1 the
\* decryption of its output, with its tag, by a fresh core (key, nonce and
\* associated data are the same throughout a behaviour)
RoundTripAt(i) ==
    /\ log[i].op = "enc" /\ log[i].first
    /\ log[i + 1].op = "dec" /\ log[i + 1].first
    /\ log[i + 1].inbuf = log[i].outbuf
    /\ log[i + 1].tag = log[i].tag

\* C1: decrypting, with a fresh core, the ciphertext and the tag that a fresh core
\* with the same key, nonce and associated data produced returns Ok and leaves
\* the plaintext in the buffer, for both rates and all lengths.
C1_RoundTrip ==
    \A i \in 1..(Len(log) - 1) :
        RoundTripAt(i) =>
            /\ log[i + 1].result = "Ok"
            /\ log[i + 1].outbuf = log[i].inbuf
            /\ Len(log[i].outbuf) = Len(log[i].inbuf)

\* a round trip of a message with a partial last block has been performed
C1_Witness ==
    \E i \in 1..(Len(log) - 1) :
        /\ RoundTripAt(i)
        /\ Len(log[i].inbuf) % P # 0
        /\ log[i].outbuf # log[i].inbuf
        /\ log[i + 1].outbuf = log[i].inbuf

\* the 16 bytes t are x3 followed by x4 of st, most significant byte first
TagMatches(st, t) ==
    /\ Len(t) = 16
    /\ \A j \in Bits :
        /\ (j \in st.x3) = BitOf(t[8 - (j \div 8)], j % 8)
        /\ (j \in st.x4) = BitOf(t[16 - (j \div 8)], j % 8)

\* the core has returned from the call recorded in last and nothing has
\* happened since
Returned == phase = "finalized"

\* C2: decrypt_inplace returns Ok exactly when the expected tag is x3 followed by
\* x4 of the finalized state in all 16 bytes, and the one error otherwise;
\* encrypt_inplace returns no error; a valid tag with any one bit changed is
\* rejected.
C2_TagVerdict ==
    /\ last.op = "enc" => last.result = "Tag"
    /\ last.op = "dec" => last.result \in {"Ok", "Err"}
    /\ (last.op = "dec" /\ Returned) =>
        /\ (last.result = "Ok") = TagMatches(core.state, last.expected)
        /\ last.result = "Ok" =>
             \A j \in 0..127 :
                return_verdict(call(core, buf), FlipBit(last.expected, j)).result = "Err"

\* a decryption has failed on a tag that differs from the valid one in one bit
C2_Witness ==
    /\ last.op = "dec" /\ Returned
    /\ last.result = "Err"
    /\ \E j \in 0..127 : TagMatches(core.state, FlipBit(last.expected, j))

\* the buffer process_decrypt_inplace leaves, for the core and the buffer the
\* last call started from
CandidatePlaintext ==
    process_decrypt_inplace(P, process_associated_data(P, last.pre.state, ad).st,
                            last.inbuf).buf

\* C3: after decrypt_inplace the buffer holds the candidate plaintext, whatever
\* the expected tag and the verdict: it is what process_decrypt_inplace wrote,
\* and the call that returned Ok leaves the same buffer when it is given a
\* wrong tag and fails.
C3_BufferWhateverTheTag ==
    (last.op = "dec" /\ Returned) =>
        /\ last.outbuf = CandidatePlaintext
        /\ last.result = "Ok" =>
             \E r \in {decrypt_inplace(P, last.pre, last.inbuf, ad,
                                       FlipBit(last.expected, 0))} :
                r.result = "Err" /\ r.buf = last.outbuf

\* a decryption has failed and has left the buffer overwritten
C3_Witness ==
    /\ last.op = "dec" /\ Returned
    /\ last.result = "Err"
    /\ last.inbuf # <<>>
    /\ last.outbuf # last.inbuf
    /\ \E b \in 1..Len(last.outbuf) : last.outbuf[b] # 0

\* C4: a Core performs at most one encrypt or decrypt operation: once it is
\* finalized no further operation occurs on it.
C4_SingleUse == ops <= 1

\* C5: no call panics: every cursor read, write and seek stays in the buffer,
\* pad is called with 0..7 only, clear with 1..7 only, every shift amount is
\* in 0..63, and the buffer keeps its length.
C5_Total ==
    /\ ~last.panic
    /\ Len(last.outbuf) = Len(last.inbuf)
    /\ \A c \in last.calls :
        /\ c[1] = "pad" => c[2] \in 0..7
        /\ c[1] = "clear" => c[2] \in 1..7
        /\ c[1] \in {"shl", "shr"} => c[2] \in 0..63

\* a decryption at rate 16 with a last block of 9..15 bytes has completed
C5_Witness ==
    /\ last.op = "dec"
    /\ P = COUNT128A
    /\ Len(last.inbuf) % 16 \in 9..15
    /\ Len(ad) % 16 \in 8..15 \/ Len(ad) = 0
    /\ \E c \in last.calls : c[1] = "clear"
    /\ ~last.panic

\* C7: with the feature zeroize, a dropped Core holds two zero key words,
\* whatever it did before it was dropped.
C7_KeyZeroized ==
    (phase = "dropped" /\ zeroize) => core.key = <<ZeroWord, ZeroWord>>

\* a Core whose decryption failed has been dropped with the feature zeroize
C7_Witness ==
    /\ phase = "dropped" /\ zeroize
    /\ last.op = "dec" /\ last.result = "Err"
    /\ last.pre.key[1] # ZeroWord /\ last.pre.key[2] # ZeroWord
    /\ core.key = <<ZeroWord, ZeroWord>>

\* the associated data a followed by the byte 0x80 and zero bytes up to a
\* multiple of the rate
PadAD(rate, a) == a \o <<128>> \o [i \in 1..(rate - 1 - (Len(a) % rate)) |-> 0]

\* the state st with a block of rate bytes XORed into x0 (and x1 at rate 16)
XorBlock(rate, st, blk) ==
    [st EXCEPT !.x0 = XOR(@, from_be_bytes(SubSeq(blk, 1, 8))),
               !.x1 = IF rate = COUNT128A
                      THEN XOR(@, from_be_bytes(SubSeq(blk, 9, 16))) ELSE @]

\* the sponge absorption of the blocks bs: XOR a block in, permute, repeat
RECURSIVE Absorb(_, _, _)
Absorb(rate, st, bs) ==
    IF bs = <<>> THEN st
    ELSE LET t == permute(rate, XorBlock(rate, st, SubSeq(bs, 1, rate)))
         IN  IF t = t THEN Absorb(rate, t, SubSeq(bs, rate + 1, Len(bs))) ELSE t

\* C8: process_associated_data leaves the state of the padded absorption (the
\* state it got, for empty associated data) with bit 0 of x4 flipped; for empty
\* associated data x0..x3 are unchanged and x4 differs in bit 0 only.
C8_DomainSeparation ==
    Returned =>
        /\ last.afterAD =
             [(IF ad = <<>> THEN last.pre.state
               ELSE Absorb(P, last.pre.state, PadAD(P, ad)))
              EXCEPT !.x4 = XOR(@, {0})]
        /\ ad = <<>> =>
            /\ last.afterAD.x0 = last.pre.state.x0
            /\ last.afterAD.x1 = last.pre.state.x1
            /\ last.afterAD.x2 = last.pre.state.x2
            /\ last.afterAD.x3 = last.pre.state.x3
            /\ XOR(last.afterAD.x4, last.pre.state.x4) = {0}

\* an operation with empty associated data and a message has been performed
C8_Witness ==
    /\ Returned
    /\ ad = <<>>
    /\ last.inbuf # <<>>
    /\ XOR(last.afterAD.x4, last.pre.state.x4) = {0}

\* C9: clear(w, n), n in 1..7, is w with its n most significant bytes zeroed
\* and its 8 - n low bytes unchanged (w mod 2^(64 - 8n));
\* clear(0x0123456789abcdef, 3) = 0x6789abcdef.
C9_ClearTopBytes ==
    hout.op = "clear" =>
        /\ hout.val = {i \in hw : i < 64 - 8 * hn}
        /\ \A k \in 0..7 :
             ByteAt(hout.val, k) = IF k >= 8 - hn THEN 0 ELSE ByteAt(hw, k)
        /\ (hn = 3 /\ to_be_bytes(hw, 8) = <<1, 35, 69, 103, 137, 171, 205, 239>>) =>
             to_be_bytes(hout.val, 8) = <<0, 0, 0, 103, 137, 171, 205, 239>>

\* clear(0x0123456789abcdef, 3) has been computed
C9_Witness ==
    /\ hout.op = "clear"
    /\ hn = 3
    /\ to_be_bytes(hw, 8) = <<1, 35, 69, 103, 137, 171, 205, 239>>
    /\ to_be_bytes(hout.val, 8) = <<0, 0, 0, 103, 137, 171, 205, 239>>

\* C10 as stated: in the decrypt tail with n bytes left, clear zeroes the top
\* 8 - n bytes of the word and keeps its bottom n bytes.
C10_ClearsTopRest ==
    last.op = "dec" =>
        \A r \in last.cl :
            \A k \in 0..7 :
                ByteAt(r.after, k) = IF k >= r.n THEN 0 ELSE ByteAt(r.before, k)

\* C10: in the decrypt tail with n bytes left, 0 < n < 8, clear zeroes the top
\* n bytes of the word (those of the n ciphertext bytes) and keeps its bottom
\* 8 - n bytes, before the ciphertext bytes are XORed back in.
C10_ClearsTopN ==
    last.op = "dec" =>
        \A r \in last.cl :
            /\ r.n \in 1..7
            /\ \A k \in 0..7 :
                 ByteAt(r.after, k) = IF k >= 8 - r.n THEN 0 ELSE ByteAt(r.before, k)

\* a decrypt tail of 3 bytes has cleared a word whose top 3 bytes were not zero
C10_Witness ==
    /\ last.op = "dec"
    /\ \E r \in last.cl :
        /\ r.n = 3
        /\ r.after # r.before
        /\ \A k \in 0..4 : ByteAt(r.after, k) = ByteAt(r.before, k)
        /\ \A k \in 5..7 : ByteAt(r.after, k) = 0
====
